---- MODULE Spec2Model ----
(***************************************************************************)
(* Model of Engine/Graphics/Batch.cpp: the Batch comparators, BatchGroup   *)
(* (SetTransforms, Draw) and BatchQueue (Clear, AddBatch, the two sorts,   *)
(* SetTransforms, GetNumInstances).                                        *)
(*                                                                         *)
(* Pointers are modelled by small integers: a geometry, material, pass or  *)
(* light queue is its identity number (0 is the null pointer), a world     *)
(* transform is the number of the scene node it belongs to.  The sorted    *)
(* views hold Batch* / BatchGroup*: a Batch* is the index of the batch in  *)
(* batches_, a BatchGroup* is the key of the group in its map.             *)
(***************************************************************************)
EXTENDS Integers, Sequences, FiniteSets, TLC

(* ------------------------------ bounds -------------------------------- *)
MaxBatches == 3
MaxGeometry == 2
MaxKeys == 3
MaxDistance == 3
MaxMinGroupSize == 2
MaxInstanceTriangles == 2
MaxCapacity == 2
BufferSlots == MaxBatches + 1

(* ------------------------- program constants -------------------------- *)
\* 0xffffffff, the "not yet written" start index; only compared for equality,
\* and written as the same 32-bit word read as a signed integer.
M_MAX_UNSIGNED == -1
GEOM_STATIC == 0
GEOM_SKINNED == 1
\* The masks of CalculateSortKey: 0x7fff, 0xffff, and the priority bit 0x8000
LIGHT_QUEUE_MASK == 32767
FIELD_MASK == 65535
PRIORITY_BIT == 32768

VARIABLES
    batches_,                   \* Vector<Batch>
    priorityBatchGroups_,       \* Map<BatchGroupKey, BatchGroup>
    batchGroups_,               \* Map<BatchGroupKey, BatchGroup>
    sortedPriorityBatches_,     \* PODVector<Batch*>
    sortedBatches_,             \* PODVector<Batch*>
    sortedPriorityBatchGroups_, \* PODVector<BatchGroup*>
    sortedBatchGroups_,         \* PODVector<BatchGroup*>
    renderer,                   \* the Renderer's instancing settings
    lockedData,                 \* the locked instancing buffer (slot -> transform)
    vertexBuffers,              \* geometry -> instancing streams pushed to its vertex buffers
    freeIndex,                  \* the caller's write cursor into lockedData
    graphicsCalls,              \* the Graphics calls issued by the last operation
    submitted,                  \* history: the AddBatch calls since the last Clear
    frame,                      \* history: the buffer ranges given out from the cursor
    lastOp                      \* history: the last operation and its inputs

vars == <<batches_, priorityBatchGroups_, batchGroups_, sortedPriorityBatches_,
          sortedBatches_, sortedPriorityBatchGroups_, sortedBatchGroups_,
          renderer, lockedData, vertexBuffers, freeIndex, graphicsCalls, submitted,
          frame, lastOp>>

(* ------------------------------ helpers ------------------------------- *)
\* The history entry of an operation: its name and, for a sort, whether the
\* operation before it was the same sort.
Op(name) == [op |-> name, again |-> FALSE]

SortOp(name) == [op |-> name, again |-> lastOp.op = name]

After(name) == lastOp.op = name

EmptyMap == <<>>

RECURSIVE SumSeq(_)
SumSeq(s) == IF s = <<>> THEN 0 ELSE Head(s) + SumSeq(Tail(s))

\* Geometry::GetIndexCount(): geometry number g is a mesh of g triangles.
IndexCount(geometry) == 3 * geometry

(* ------------------------------ sort keys ----------------------------- *)
\* An unsigned long long is its four 16-bit fields, most significant first.
\* A pointer is the number of the object it points to, that is its address
\* divided by the size of the object (0 is the null pointer).
U64(f3, f2, f1, f0) == <<f3, f2, f1, f0>>

U64Greater(a, b) ==
    \E i \in 1..4 : a[i] > b[i] /\ \A j \in 1..(i - 1) : a[j] = b[j]

U64GreaterEqual(a, b) == a = b \/ U64Greater(a, b)

CalculateSortKey_WideLightQueue(batch) ==
    LET lightQueue == batch.lightQueue_ % 65536
        pass == batch.pass_ % 65536
        material == batch.material_ % 65536
        geometry == batch.geometry_ % 65536
    IN  U64(IF batch.hasPriority_ /\ lightQueue < 32768 THEN lightQueue + 32768
                                                         ELSE lightQueue,
            pass, material, geometry)

CalculateSortKey(batch) ==
    LET lightQueue == batch.lightQueue_ % 32768
        pass == batch.pass_ % 65536
        material == batch.material_ % 65536
        geometry == batch.geometry_ % 65536
    IN  U64(IF batch.hasPriority_ THEN lightQueue + 32768 ELSE lightQueue,
            pass, material, geometry)

(* ----------------------------- comparators ---------------------------- *)
CompareBatchesFrontToBack_FarFirst(lhs, rhs) ==
    IF lhs.sortKey_ = rhs.sortKey_
        THEN lhs.distance_ > rhs.distance_
        ELSE U64Greater(lhs.sortKey_, rhs.sortKey_)

CompareBatchesFrontToBack(lhs, rhs) ==
    IF lhs.sortKey_ = rhs.sortKey_
        THEN lhs.distance_ < rhs.distance_
        ELSE U64Greater(lhs.sortKey_, rhs.sortKey_)

CompareBatchesBackToFront_KeyAscending(lhs, rhs) ==
    IF lhs.distance_ = rhs.distance_
        THEN U64Greater(rhs.sortKey_, lhs.sortKey_)
        ELSE lhs.distance_ > rhs.distance_

CompareBatchesBackToFront(lhs, rhs) ==
    IF lhs.distance_ = rhs.distance_
        THEN U64Greater(lhs.sortKey_, rhs.sortKey_)
        ELSE lhs.distance_ > rhs.distance_

CompareInstancesFrontToBack_FarFirst(lhs, rhs) == lhs.distance_ > rhs.distance_

CompareInstancesFrontToBack_OrEqual(lhs, rhs) == lhs.distance_ <= rhs.distance_

CompareInstancesFrontToBack(lhs, rhs) == lhs.distance_ < rhs.distance_

CompareBatchGroupsFrontToBack_LastInstance(lhs, rhs) ==
    lhs.instances_[Len(lhs.instances_)].distance_
        < rhs.instances_[Len(rhs.instances_)].distance_

CompareBatchGroupsFrontToBack(lhs, rhs) ==
    lhs.instances_[1].distance_ < rhs.instances_[1].distance_

(* ------------------------- Sort (from Sort.h) ------------------------- *)
\* The comparison function of a sort is the set of the pairs <<a, b>> of
\* elements on which it returns true.
Elements(s) == {s[i] : i \in DOMAIN s}

\* One step of the insertion sort: x moves left past every element it
\* compares less than, and stops at the first one it does not.
InsertSorted(s, x, less) ==
    LET stops == {q \in 1..Len(s) : <<x, s[q]>> \notin less}
        p == IF stops = {} THEN 0 ELSE CHOOSE q \in stops : \A r \in stops : r <= q
    IN  SubSeq(s, 1, p) \o <<x>> \o SubSeq(s, p + 1, Len(s))

Sort(s, less) ==
    LET RECURSIVE SortPrefix(_)
        SortPrefix(n) ==
            IF n = 0 THEN <<>> ELSE InsertSorted(SortPrefix(n - 1), s[n], less)
    IN  SortPrefix(Len(s))

(* --------------------- BatchGroupKey and the maps --------------------- *)
GroupKey(batch) == <<batch.lightQueue_, batch.pass_, batch.material_, batch.geometry_>>

\* operator < of BatchGroupKey: the order in which a Map is iterated.
KeyLess(a, b) ==
    \E i \in 1..4 : a[i] < b[i] /\ \A j \in 1..(i - 1) : a[j] = b[j]

\* Begin() .. End() of a Map: its keys in ascending order.
RECURSIVE MapKeys(_)
MapKeys(groups) ==
    IF DOMAIN groups = {} THEN <<>>
    ELSE LET first == CHOOSE k \in DOMAIN groups :
                          \A o \in DOMAIN groups : o = k \/ KeyLess(k, o)
         IN  <<first>> \o MapKeys([k \in DOMAIN groups \ {first} |-> groups[k]])

MapInsert(groups, key, group) ==
    [k \in DOMAIN groups \cup {key} |-> IF k = key THEN group ELSE groups[k]]

(* ------------------------------- inputs ------------------------------- *)
\* Group keys <<lightQueue, pass, material, geometry>>: the first one is an
\* unlit batch of pass 1, material 1, geometry 1; each next one differs from
\* it in one field (geometry, material, pass, light queue, geometry, ...).
KeyNumber(i) ==
    LET field == (i + 2) % 4
        step == IF i = 1 THEN 0 ELSE 1 + ((i - 2) \div 4)
    IN  << IF field = 2 THEN step ELSE 0,
           IF field = 1 THEN 1 + step ELSE 1,
           IF field = 0 THEN 1 + step ELSE 1,
           IF field = 3 THEN 1 + step ELSE 1 >>

Keys == { KeyNumber(i) : i \in 1..MaxKeys }

\* The nearest and the farthest distance
NearFar == {1, MaxDistance}

\* geometryType_, overrideView_, shaderData_ of the batches a view submits
Kinds == { <<GEOM_STATIC, FALSE, 0>>, <<GEOM_SKINNED, FALSE, 0>>,
           <<GEOM_STATIC, TRUE, 0>>, <<GEOM_STATIC, FALSE, 1>> }

\* vertexShader_, pixelShader_ (0 is a missing shader)
ShaderPairs == { <<1, 1>>, <<0, 1>>, <<1, 0>> }

MakeBatch(key, kind, shaders, hasPriority, distance) ==
    [ lightQueue_ |-> key[1], pass_ |-> key[2], material_ |-> key[3], geometry_ |-> key[4],
      geometryType_ |-> kind[1], overrideView_ |-> kind[2], shaderData_ |-> kind[3],
      vertexShader_ |-> shaders[1], pixelShader_ |-> shaders[2],
      camera_ |-> 1, vertexShaderIndex_ |-> 0,
      hasPriority_ |-> hasPriority, distance_ |-> distance,
      sortKey_ |-> U64(0, 0, 0, 0), worldTransform_ |-> 0 ]

\* The renderer's settings used by a specification that does not draw.
DefaultRenderer ==
    [ minInstanceGroupSize |-> 2, maxInstanceTriangles |-> MaxInstanceTriangles,
      instancingBuffer |-> TRUE, vertexCount |-> MaxCapacity ]

(* -------------------------------- Init -------------------------------- *)
InitQueue ==
    /\ batches_ = <<>>
    /\ priorityBatchGroups_ = EmptyMap
    /\ batchGroups_ = EmptyMap
    /\ sortedPriorityBatches_ = <<>>
    /\ sortedBatches_ = <<>>
    /\ sortedPriorityBatchGroups_ = <<>>
    /\ sortedBatchGroups_ = <<>>
    /\ lockedData = [slot \in 0..(BufferSlots - 1) |-> 0]
    /\ vertexBuffers = EmptyMap
    /\ freeIndex = 0
    /\ graphicsCalls = <<>>
    /\ submitted = <<>>
    /\ frame = [ranges |-> <<>>, required |-> 0]
    /\ lastOp = [op |-> "Init", again |-> FALSE]

(* ------------------------- BatchQueue::Clear -------------------------- *)
Clear ==
    /\ batches_' = <<>>
    /\ sortedPriorityBatches_' = <<>>
    /\ sortedBatches_' = <<>>
    /\ priorityBatchGroups_' = EmptyMap
    /\ batchGroups_' = EmptyMap
    /\ graphicsCalls' = <<>>
    /\ submitted' = <<>>
    /\ lastOp' = Op("Clear")
    /\ UNCHANGED <<sortedPriorityBatchGroups_, sortedBatchGroups_, renderer,
                   lockedData, vertexBuffers, freeIndex, frame>>

(* ------------------------ BatchQueue::AddBatch ------------------------ *)
InstanceData(worldTransform, distance) ==
    [worldTransform_ |-> worldTransform, distance_ |-> distance]

NewGroup_Empty(batch) ==
    [ geometry_ |-> batch.geometry_, material_ |-> batch.material_, pass_ |-> batch.pass_,
      vertexShader_ |-> batch.vertexShader_, pixelShader_ |-> batch.pixelShader_,
      camera_ |-> batch.camera_, lightQueue_ |-> batch.lightQueue_,
      vertexShaderIndex_ |-> batch.vertexShaderIndex_,
      instances_ |-> <<>>,
      startIndex_ |-> M_MAX_UNSIGNED ]

NewGroup(batch) ==
    [ geometry_ |-> batch.geometry_, material_ |-> batch.material_, pass_ |-> batch.pass_,
      vertexShader_ |-> batch.vertexShader_, pixelShader_ |-> batch.pixelShader_,
      camera_ |-> batch.camera_, lightQueue_ |-> batch.lightQueue_,
      vertexShaderIndex_ |-> batch.vertexShaderIndex_,
      instances_ |-> <<InstanceData(batch.worldTransform_, batch.distance_)>>,
      startIndex_ |-> M_MAX_UNSIGNED ]

CanNotInstance_ViewIgnored(batch, noInstancing) ==
    noInstancing \/ batch.geometryType_ # GEOM_STATIC \/ batch.shaderData_ # 0

\* The condition of line 545: the batch can not be instanced.
CanNotInstance(batch, noInstancing) ==
    noInstancing \/ batch.geometryType_ # GEOM_STATIC \/ batch.overrideView_
        \/ batch.shaderData_ # 0

AddToGroups_Reseeded(groups, batch) ==
    LET key == GroupKey(batch)
    IN  IF key \notin DOMAIN groups
            THEN MapInsert(groups, key, NewGroup(batch))
            ELSE [groups EXCEPT ![key] =
                     [NewGroup(batch) EXCEPT !.instances_ =
                         Append(groups[key].instances_,
                                InstanceData(batch.worldTransform_, batch.distance_))]]

\* The else branch of AddBatch on one of the two maps.
AddToGroups(groups, batch) ==
    LET key == GroupKey(batch)
    IN  IF key \notin DOMAIN groups
            THEN MapInsert(groups, key, NewGroup(batch))
            ELSE [groups EXCEPT ![key].instances_ =
                     Append(@, InstanceData(batch.worldTransform_, batch.distance_))]

AddBatch(batch, noInstancing) ==
    /\ Len(submitted) < MaxBatches
    /\ IF CanNotInstance(batch, noInstancing)
          THEN /\ batches_' = Append(batches_, batch)
               /\ UNCHANGED <<priorityBatchGroups_, batchGroups_>>
          ELSE /\ IF batch.hasPriority_
                     THEN /\ priorityBatchGroups_' = AddToGroups(priorityBatchGroups_, batch)
                          /\ UNCHANGED batchGroups_
                     ELSE /\ batchGroups_' = AddToGroups(batchGroups_, batch)
                          /\ UNCHANGED priorityBatchGroups_
               /\ UNCHANGED batches_
    /\ graphicsCalls' = <<>>
    /\ submitted' = Append(submitted, [batch |-> batch, noInstancing |-> noInstancing])
    /\ lastOp' = Op("AddBatch")
    /\ UNCHANGED <<sortedPriorityBatches_, sortedBatches_, sortedPriorityBatchGroups_,
                   sortedBatchGroups_, renderer, lockedData, vertexBuffers, freeIndex,
                   frame>>

(* --------------------- BatchQueue::SortBackToFront -------------------- *)
\* &batches_[i] for every i, in index order (lines 583-584)
AllBatches(batches) == [i \in 1..Len(batches) |-> i]

ListGroups_Reversed(groups) ==
    [i \in 1..Len(MapKeys(groups)) |-> MapKeys(groups)[Len(MapKeys(groups)) + 1 - i]]

\* One of the loops of lines 592-597: &i->second_ from Begin() to End()
ListGroups(groups) == MapKeys(groups)

SortBackToFront ==
    /\ sortedPriorityBatches_' = <<>>
    /\ sortedBatches_' =
           Sort(AllBatches(batches_),
                { <<a, b>> \in (DOMAIN batches_) \X (DOMAIN batches_) :
                      CompareBatchesBackToFront(batches_[a], batches_[b]) })
    /\ sortedPriorityBatchGroups_' = ListGroups(priorityBatchGroups_)
    /\ sortedBatchGroups_' = ListGroups(batchGroups_)
    /\ graphicsCalls' = <<>>
    /\ lastOp' = SortOp("SortBackToFront")
    /\ UNCHANGED <<batches_, priorityBatchGroups_, batchGroups_, renderer, lockedData,
                   vertexBuffers, freeIndex, submitted, frame>>

(* --------------------- BatchQueue::SortFrontToBack -------------------- *)
SelectBatches_All(batches, hasPriority) == AllBatches(batches)

SelectBatches_PriorityTwice(batches, hasPriority) ==
    IF hasPriority
        THEN SelectSeq(AllBatches(batches), LAMBDA i : batches[i].hasPriority_)
        ELSE AllBatches(batches)

\* The batches pushed to one of the two lists by the loop of lines 607-613
SelectBatches(batches, hasPriority) ==
    SelectSeq(AllBatches(batches), LAMBDA i : batches[i].hasPriority_ = hasPriority)

\* Lines 619-622 on one map: every group's instances sorted front to back
SortInstances(groups) ==
    [k \in DOMAIN groups |->
        [groups[k] EXCEPT !.instances_ =
            Sort(@, { <<a, b>> \in Elements(@) \X Elements(@) :
                        CompareInstancesFrontToBack(a, b) })]]

\* Lines 625-636 on one map: the groups listed, then sorted by first instance
SortGroups(groups) ==
    Sort(MapKeys(groups),
         { <<a, b>> \in (DOMAIN groups) \X (DOMAIN groups) :
               CompareBatchGroupsFrontToBack(groups[a], groups[b]) })

SortFrontToBack ==
    LET less == { <<a, b>> \in (DOMAIN batches_) \X (DOMAIN batches_) :
                     CompareBatchesFrontToBack(batches_[a], batches_[b]) }
    IN  /\ sortedPriorityBatches_' = Sort(SelectBatches(batches_, TRUE), less)
        /\ sortedBatches_' = Sort(SelectBatches(batches_, FALSE), less)
        /\ priorityBatchGroups_' = SortInstances(priorityBatchGroups_)
        /\ batchGroups_' = SortInstances(batchGroups_)
        /\ sortedPriorityBatchGroups_' = SortGroups(priorityBatchGroups_')
        /\ sortedBatchGroups_' = SortGroups(batchGroups_')
        /\ graphicsCalls' = <<>>
        /\ lastOp' = SortOp("SortFrontToBack")
        /\ UNCHANGED <<batches_, renderer, lockedData, vertexBuffers, freeIndex, submitted,
                       frame>>

(* ----------------------- the instancing thresholds -------------------- *)
MaxIndexCount(r) == r.maxInstanceTriangles * 3

(* --------------------- BatchQueue::GetNumInstances -------------------- *)
MapNumInstances_AboveMinimum(groups, r) ==
    SumSeq([i \in 1..Len(MapKeys(groups)) |->
        LET group == groups[MapKeys(groups)[i]]
            instances == Len(group.instances_)
        IN  IF instances > r.minInstanceGroupSize
                   /\ IndexCount(group.geometry_) <= MaxIndexCount(r)
                THEN instances ELSE 0])

\* One of the two loops of GetNumInstances
MapNumInstances(groups, r) ==
    SumSeq([i \in 1..Len(MapKeys(groups)) |->
        LET group == groups[MapKeys(groups)[i]]
            instances == Len(group.instances_)
        IN  IF instances >= r.minInstanceGroupSize
                   /\ IndexCount(group.geometry_) <= MaxIndexCount(r)
                THEN instances ELSE 0])

GetNumInstances(r) ==
    MapNumInstances(priorityBatchGroups_, r) + MapNumInstances(batchGroups_, r)

(* ---------------------- BatchGroup::SetTransforms --------------------- *)
WriteTransforms_Reversed(data, instances, start) ==
    [slot \in DOMAIN data |->
        IF slot >= start /\ slot < start + Len(instances)
            THEN instances[Len(instances) - (slot - start)].worldTransform_
            ELSE data[slot]]

\* The write of instances_[1..n] to the slots from freeIndex on (lines 418-422)
WriteTransforms(data, instances, start) ==
    [slot \in DOMAIN data |->
        IF slot >= start /\ slot < start + Len(instances)
            THEN instances[slot - start + 1].worldTransform_
            ELSE data[slot]]

\* st is the group, the locked data, the cursor and the count of writes
GroupSetTransforms_SizeIgnored(group, r, st) ==
    IF IndexCount(group.geometry_) > MaxIndexCount(r)
        THEN [st EXCEPT !.group = group]
        ELSE [ group |-> [group EXCEPT !.startIndex_ = st.freeIndex],
               lockedData |-> WriteTransforms(st.lockedData, group.instances_, st.freeIndex),
               freeIndex |-> st.freeIndex + Len(group.instances_),
               writes |-> st.writes + Len(group.instances_) ]

GroupSetTransforms_NoAdvance(group, r, st) ==
    IF Len(group.instances_) < r.minInstanceGroupSize
           \/ IndexCount(group.geometry_) > MaxIndexCount(r)
        THEN [st EXCEPT !.group = group]
        ELSE [ group |-> [group EXCEPT !.startIndex_ = st.freeIndex],
               lockedData |-> WriteTransforms(st.lockedData, group.instances_, st.freeIndex),
               freeIndex |-> st.freeIndex,
               writes |-> st.writes + Len(group.instances_) ]

GroupSetTransforms(group, r, st) ==
    IF Len(group.instances_) < r.minInstanceGroupSize
           \/ IndexCount(group.geometry_) > MaxIndexCount(r)
        THEN [st EXCEPT !.group = group]
        ELSE [ group |-> [group EXCEPT !.startIndex_ = st.freeIndex],
               lockedData |-> WriteTransforms(st.lockedData, group.instances_, st.freeIndex),
               freeIndex |-> st.freeIndex + Len(group.instances_),
               writes |-> st.writes + Len(group.instances_) ]

(* ---------------------- BatchQueue::SetTransforms --------------------- *)
\* One of the two loops of BatchQueue::SetTransforms: the groups of a map in
\* map order.  st is the map, the locked data, the cursor and the writes.
MapSetTransforms(groups, r, st0) ==
    LET keys == MapKeys(groups)
        RECURSIVE Upto(_)
        Upto(n) ==
            IF n = 0 THEN [st0 EXCEPT !.groups = groups]
            ELSE LET before == Upto(n - 1)
                     after == GroupSetTransforms(before.groups[keys[n]], r,
                                  [ group |-> before.groups[keys[n]],
                                    lockedData |-> before.lockedData,
                                    freeIndex |-> before.freeIndex,
                                    writes |-> before.writes ])
                 IN  [ groups |-> [before.groups EXCEPT ![keys[n]] = after.group],
                       lockedData |-> after.lockedData,
                       freeIndex |-> after.freeIndex,
                       writes |-> after.writes ]
    IN  Upto(Len(keys))

\* The ranges of the buffer that the groups of a map have as they are after
\* SetTransforms: for every group that was written, in map order, its start
\* offset and its instance count.
RangesOf(groups, r) ==
    LET keys == SelectSeq(MapKeys(groups),
                    LAMBDA k : GroupSetTransforms(groups[k], r,
                                   [group |-> groups[k], lockedData |-> <<>>,
                                    freeIndex |-> 0, writes |-> 0]).writes > 0)
    IN  [i \in 1..Len(keys) |->
            [start |-> groups[keys[i]].startIndex_,
             count |-> Len(groups[keys[i]].instances_)]]

\* The caller has sized the buffer by GetNumInstances before the call.
SetTransforms ==
    LET st0 == [ groups |-> EmptyMap, lockedData |-> lockedData,
                 freeIndex |-> freeIndex, writes |-> 0 ]
        st1 == MapSetTransforms(priorityBatchGroups_, renderer, st0)
        st2 == MapSetTransforms(batchGroups_, renderer, st1)
    IN  /\ st2.freeIndex <= BufferSlots
        /\ frame' = [ ranges |-> frame.ranges \o RangesOf(st1.groups, renderer)
                                      \o RangesOf(st2.groups, renderer),
                      required |-> frame.required + GetNumInstances(renderer) ]
        /\ priorityBatchGroups_' = st1.groups
        /\ batchGroups_' = st2.groups
        /\ lockedData' = st2.lockedData
        /\ freeIndex' = st2.freeIndex
        /\ graphicsCalls' = <<>>
        /\ lastOp' = [ op |-> "SetTransforms", again |-> FALSE,
                       writes |-> st2.writes, freeIndex |-> freeIndex ]
        /\ UNCHANGED <<batches_, sortedPriorityBatches_, sortedBatches_,
                       sortedPriorityBatchGroups_, sortedBatchGroups_, renderer,
                       vertexBuffers, submitted>>

(* --------------------- the queues of one frame ------------------------ *)
\* The caller goes on to the next BatchQueue of the frame, an empty queue,
\* and will call its SetTransforms with the same locked buffer and cursor.
NewQueue ==
    /\ After("SetTransforms")
    /\ batches_' = <<>>
    /\ priorityBatchGroups_' = EmptyMap
    /\ batchGroups_' = EmptyMap
    /\ sortedPriorityBatches_' = <<>>
    /\ sortedBatches_' = <<>>
    /\ sortedPriorityBatchGroups_' = <<>>
    /\ sortedBatchGroups_' = <<>>
    /\ graphicsCalls' = <<>>
    /\ submitted' = <<>>
    /\ lastOp' = Op("NewQueue")
    /\ UNCHANGED <<renderer, lockedData, vertexBuffers, freeIndex, frame>>

(* --------------------------- Graphics calls --------------------------- *)
\* A call made on the Graphics object: its name, the object it is made with,
\* the instance count and start offset of an instanced draw, and the
\* transforms it binds or that the instancing buffer holds for it.
Call(name, object) ==
    [call |-> name, object |-> object, count |-> 0, offset |-> 0, transforms |-> <<>>]

SetModelTransform(worldTransform) ==
    [Call("SetShaderParameter VSP_MODEL", 0) EXCEPT !.transforms = <<worldTransform>>]

DrawInstanced(geometry, count, offset, transforms) ==
    [call |-> "DrawInstanced", object |-> geometry, count |-> count, offset |-> offset,
     transforms |-> transforms]

CallsNamed(calls, name) == SelectSeq(calls, LAMBDA c : c.call = name)

(* --------------------------- Batch::Prepare --------------------------- *)
Prepare(batch, setModelTransform) ==
    IF batch.vertexShader_ = 0 \/ batch.pixelShader_ = 0 THEN <<>>
    ELSE (IF batch.pass_ # 0 /\ batch.material_ # 0
             THEN <<Call("SetRenderStates", <<batch.pass_, batch.material_>>)>> ELSE <<>>)
         \o <<Call("SetShaders", <<batch.vertexShader_, batch.pixelShader_>>)>>
         \o <<Call("SetShaderParameters", batch.lightQueue_)>>
         \o (IF setModelTransform THEN <<SetModelTransform(batch.worldTransform_)>> ELSE <<>>)
         \o (IF batch.material_ # 0 THEN <<Call("SetTextures", batch.material_)>> ELSE <<>>)

(* ------------------- the vertex buffers of a geometry ----------------- *)
\* geometry_->GetVertexBuffers() and GetVertexElementMasks() are the own
\* buffers of the geometry followed by the instancing streams that have been
\* pushed and not popped; a geometry outside the domain has none.
Streams(buffers, geometry) ==
    IF geometry \in DOMAIN buffers THEN buffers[geometry] ELSE 0

SetStreams(buffers, geometry, n) ==
    [g \in ((DOMAIN buffers) \cup {geometry}) \ (IF n = 0 THEN {geometry} ELSE {}) |->
        IF g = geometry THEN n ELSE buffers[g]]

\* Lines 483-484: vertexBuffers.Push and elementMasks.Push
PushInstancingBuffer(buffers, geometry) ==
    SetStreams(buffers, geometry, Streams(buffers, geometry) + 1)

PopInstancingBuffer_Kept(buffers, geometry) == buffers

\* Lines 528-529: vertexBuffers.Pop and elementMasks.Pop
PopInstancingBuffer(buffers, geometry) ==
    SetStreams(buffers, geometry, Streams(buffers, geometry) - 1)

LockFailed_NoPop(buffers, geometry) == buffers

\* Lines 498-504: the pops before the return on a failed lock
LockFailed(buffers, geometry) == PopInstancingBuffer(buffers, geometry)

\* graphics->SetVertexBuffers with the buffers of the geometry as they are
BindVertexBuffers(geometry, buffers, offset) ==
    [Call("SetVertexBuffers", geometry) EXCEPT
         !.count = Streams(buffers, geometry), !.offset = offset]

(* ---------------------------- Batch::Draw ----------------------------- *)
\* Geometry::Draw: the buffers of the geometry are set and it is drawn once.
GeometryDraw(geometry, buffers) ==
    <<Call("SetIndexBuffer", geometry), BindVertexBuffers(geometry, buffers, 0),
      Call("Draw", geometry)>>

BatchDraw(batch, buffers) == Prepare(batch, TRUE) \o GeometryDraw(batch.geometry_, buffers)

DrawBatch ==
    \E i \in 1..Len(batches_) :
        /\ graphicsCalls' = BatchDraw(batches_[i], vertexBuffers)
        /\ lastOp' = [op |-> "DrawBatch", again |-> FALSE, batch |-> i]
        /\ UNCHANGED <<batches_, priorityBatchGroups_, batchGroups_, sortedPriorityBatches_,
                       sortedBatches_, sortedPriorityBatchGroups_, sortedBatchGroups_,
                       renderer, lockedData, vertexBuffers, freeIndex, submitted, frame>>

(* -------------------------- BatchGroup::Draw -------------------------- *)
\* The temporary batch of lines 433-441
GroupBatch(group) ==
    [ geometry_ |-> group.geometry_, material_ |-> group.material_, pass_ |-> group.pass_,
      vertexShader_ |-> group.vertexShader_, pixelShader_ |-> group.pixelShader_,
      camera_ |-> group.camera_, lightQueue_ |-> group.lightQueue_,
      vertexShaderIndex_ |-> group.vertexShaderIndex_ ]

\* The instancing vertex shader variation of the pass (lines 468-474)
InstancedVertexShader(group) == 1 + group.pass_

UseFallback_SizeOnly(group, r) ==
    ~r.instancingBuffer \/ Len(group.instances_) < r.minInstanceGroupSize

UseFallback_BufferIgnored(group, r) ==
    Len(group.instances_) < r.minInstanceGroupSize
        \/ IndexCount(group.geometry_) > MaxIndexCount(r)

\* The condition of line 448: draw as individual instances
UseFallback(group, r) ==
    ~r.instancingBuffer \/ Len(group.instances_) < r.minInstanceGroupSize
        \/ IndexCount(group.geometry_) > MaxIndexCount(r)

\* Lines 450-462
FallbackDraw(group, buffers) ==
    LET RECURSIVE Upto(_)
        Upto(n) ==
            IF n = 0 THEN <<>>
            ELSE Upto(n - 1) \o <<SetModelTransform(group.instances_[n].worldTransform_),
                                   Call("Draw", group.geometry_)>>
    IN  Prepare(GroupBatch(group), FALSE)
        \o <<Call("SetIndexBuffer", group.geometry_),
             BindVertexBuffers(group.geometry_, buffers, 0)>>
        \o Upto(Len(group.instances_))
        \o <<Call("ClearTransformSources", 0)>>

ChunkSize_Below(remaining, vertexCount) ==
    IF remaining >= vertexCount /\ vertexCount > 1 THEN vertexCount - 1 ELSE remaining

\* Lines 492-494: the instances of one lock
ChunkSize(remaining, vertexCount) ==
    IF remaining > vertexCount THEN vertexCount ELSE remaining

\* The loop of lines 489-516, with the instancing buffer pushed.  The lock of
\* attempt number lockFailAt fails (0: every lock succeeds).  A loop that has
\* made more locks than there are instances makes no progress and does not
\* end.
ChunkedDraw(group, r, lockFailAt, buffers) ==
    LET n == Len(group.instances_)
        RECURSIVE Loop(_, _)
        Loop(startIndex, attempt) ==
            IF ~(startIndex < n) THEN [calls |-> <<>>, outcome |-> "returned"]
            ELSE IF attempt > n THEN [calls |-> <<>>, outcome |-> "spins"]
            ELSE IF attempt = lockFailAt THEN [calls |-> <<>>, outcome |-> "lock failed"]
            ELSE LET instances == ChunkSize(n - startIndex, r.vertexCount)
                     rest == Loop(startIndex + instances, attempt + 1)
                 IN  [ calls |->
                         << Call("SetIndexBuffer", group.geometry_),
                            BindVertexBuffers(group.geometry_, buffers, 0),
                            DrawInstanced(group.geometry_, instances, 0,
                                [i \in 1..instances |->
                                    group.instances_[i + startIndex].worldTransform_]) >>
                         \o rest.calls,
                       outcome |-> rest.outcome ]
    IN  Loop(0, 1)

\* The transform the instancing stream gives for a slot (0: none written)
ReadSlot(data, slot) == IF slot \in DOMAIN data THEN data[slot] ELSE 0

PrefilledDraw_FromZero(group, data, buffers) ==
    << Call("SetIndexBuffer", group.geometry_),
       BindVertexBuffers(group.geometry_, buffers, 0),
       DrawInstanced(group.geometry_, Len(group.instances_), 0,
           [i \in 1..Len(group.instances_) |-> ReadSlot(data, i - 1)]) >>

\* Lines 521-524: the buffer already holds the transforms from startIndex_ on
PrefilledDraw(group, data, buffers) ==
    << Call("SetIndexBuffer", group.geometry_),
       BindVertexBuffers(group.geometry_, buffers, group.startIndex_),
       DrawInstanced(group.geometry_, Len(group.instances_), group.startIndex_,
           [i \in 1..Len(group.instances_) |-> ReadSlot(data, group.startIndex_ + i - 1)]) >>

\* The calls of BatchGroup::Draw, how it ended, and the vertex buffers of the
\* geometries as it leaves them.  A draw that does not end hands nothing to a
\* later operation: the buffers are kept as they were before it.
GroupDraw(group, r, data, lockFailAt, buffers) ==
    IF Len(group.instances_) = 0
        THEN [calls |-> <<>>, outcome |-> "returned", vertexBuffers |-> buffers]
    ELSE IF UseFallback(group, r)
        THEN [calls |-> FallbackDraw(group, buffers), outcome |-> "returned",
              vertexBuffers |-> buffers]
    ELSE LET prepared ==
                 Prepare([GroupBatch(group) EXCEPT
                              !.vertexShader_ = InstancedVertexShader(group)], FALSE)
             pushed == PushInstancingBuffer(buffers, group.geometry_)
         IN  IF group.startIndex_ = M_MAX_UNSIGNED
                 THEN LET chunks == ChunkedDraw(group, r, lockFailAt, pushed)
                      IN  [ calls |-> prepared \o chunks.calls,
                            outcome |-> chunks.outcome,
                            vertexBuffers |->
                                IF chunks.outcome = "lock failed"
                                    THEN LockFailed(pushed, group.geometry_)
                                ELSE IF chunks.outcome = "returned"
                                    THEN PopInstancingBuffer(pushed, group.geometry_)
                                ELSE buffers ]
                 ELSE [ calls |-> prepared \o PrefilledDraw(group, data, pushed),
                        outcome |-> "returned",
                        vertexBuffers |-> PopInstancingBuffer(pushed, group.geometry_) ]

DrawGroup ==
    \E hasPriority \in BOOLEAN, lockFailAt \in 0..MaxBatches :
        LET groups == IF hasPriority THEN priorityBatchGroups_ ELSE batchGroups_
        IN  \E key \in DOMAIN groups :
                LET drawn == GroupDraw(groups[key], renderer, lockedData, lockFailAt,
                                       vertexBuffers)
                IN  /\ graphicsCalls' = drawn.calls
                    /\ vertexBuffers' = drawn.vertexBuffers
                    /\ lastOp' = [ op |-> "DrawGroup", again |-> FALSE,
                                   hasPriority |-> hasPriority, key |-> key,
                                   outcome |-> drawn.outcome ]
                    /\ UNCHANGED <<batches_, priorityBatchGroups_, batchGroups_,
                                   sortedPriorityBatches_, sortedBatches_,
                                   sortedPriorityBatchGroups_, sortedBatchGroups_,
                                   renderer, lockedData, freeIndex, submitted, frame>>

(* -------------------------- the specifications ------------------------ *)
\* The caller of AddBatch: the batch has the world transform of its own scene
\* node, and its sort key has been calculated.
Submit(batch, noInstancing) ==
    AddBatch([batch EXCEPT !.worldTransform_ = Len(submitted) + 1,
                           !.sortKey_ = CalculateSortKey(batch)], noInstancing)

InstanceableKind == <<GEOM_STATIC, FALSE, 0>>

InitSorting == InitQueue /\ renderer = DefaultRenderer

\* A pass of one material and geometry: batches of either priority, near or
\* far, instanceable or kept loose by noInstancing.
AddBatchSorting ==
    \E p \in BOOLEAN, d \in NearFar, noInstancing \in BOOLEAN :
        Submit(MakeBatch(KeyNumber(1), InstanceableKind, <<1, 1>>, p, d), noInstancing)

NextSorting == AddBatchSorting \/ SortBackToFront \/ SortFrontToBack

SpecSorting == InitSorting /\ [][NextSorting]_vars

\* An opaque pass of loose batches: any geometry and priority, near or far.
AddBatchKeyed ==
    \E g \in 1..MaxGeometry, p \in BOOLEAN, d \in NearFar :
        Submit(MakeBatch(<<0, 1, 1, g>>, InstanceableKind, <<1, 1>>, p, d), TRUE)

NextFrontToBack == AddBatchKeyed \/ SortFrontToBack

SpecFrontToBack == InitSorting /\ [][NextFrontToBack]_vars

\* An opaque pass of instanceable batches of one geometry: either priority,
\* any distance.
AddBatchInstances ==
    \E p \in BOOLEAN, d \in 1..MaxDistance :
        Submit(MakeBatch(KeyNumber(1), InstanceableKind, <<1, 1>>, p, d), FALSE)

NextInstances == AddBatchInstances \/ SortFrontToBack

SpecInstances == InitSorting /\ [][NextInstances]_vars

\* A transparent pass: instanceable batches of any geometry and priority,
\* near or far, and a loose batch; the queue is only sorted back to front.
AddBatchTransparent ==
    \E g \in 1..MaxGeometry, p \in BOOLEAN, d \in NearFar, noInstancing \in BOOLEAN :
        /\ noInstancing => (g = 1 /\ ~p /\ d = 1)
        /\ Submit(MakeBatch(<<0, 1, 1, g>>, InstanceableKind, <<1, 1>>, p, d), noInstancing)

NextBackToFront == AddBatchTransparent \/ SortBackToFront

SpecBackToFront == InitSorting /\ [][NextBackToFront]_vars

\* An opaque pass of instanceable batches of any geometry and priority, near
\* or far; the queue is only sorted front to back.
AddBatchOpaque ==
    \E g \in 1..MaxGeometry, p \in BOOLEAN, d \in NearFar :
        Submit(MakeBatch(<<0, 1, 1, g>>, InstanceableKind, <<1, 1>>, p, d), FALSE)

NextOpaque == AddBatchOpaque \/ SortFrontToBack

SpecOpaque == InitSorting /\ [][NextOpaque]_vars

\* A pass whose groups matter: instanceable batches of any geometry, near or
\* far, and a loose batch.
AddBatchGrouped ==
    \E g \in 1..MaxGeometry, d \in NearFar, noInstancing \in BOOLEAN :
        /\ noInstancing => (g = 1 /\ d = 1)
        /\ Submit(MakeBatch(<<0, 1, 1, g>>, InstanceableKind, <<1, 1>>, FALSE, d),
                  noInstancing)

NextGroupSorting == AddBatchGrouped \/ SortBackToFront \/ SortFrontToBack

SpecGroupSorting == InitSorting /\ [][NextGroupSorting]_vars

\* The batches a view collects: instanceable ones of any group key and
\* priority, and ones of every kind that can not be instanced.
AddBatchCollecting ==
    \E key \in Keys, kind \in Kinds, p \in BOOLEAN, noInstancing \in BOOLEAN :
        /\ (kind # InstanceableKind \/ noInstancing) => (key = KeyNumber(1) /\ ~p)
        /\ kind # InstanceableKind => ~noInstancing
        /\ Submit(MakeBatch(key, kind, <<1, 1>>, p, 1), noInstancing)

NextCollecting == AddBatchCollecting \/ Clear

SpecCollecting == InitSorting /\ [][NextCollecting]_vars

\* The settings of a renderer: the two thresholds, and the instancing buffer
\* (absent without hardware instancing) with its capacity in instances.
Thresholds ==
    { [ minInstanceGroupSize |-> m, maxInstanceTriangles |-> t,
        instancingBuffer |-> TRUE, vertexCount |-> MaxCapacity ] :
          m \in 1..MaxMinGroupSize, t \in 1..MaxInstanceTriangles }

Renderers ==
    { [ minInstanceGroupSize |-> m, maxInstanceTriangles |-> t,
        instancingBuffer |-> b, vertexCount |-> c ] :
          m \in 1..MaxMinGroupSize, t \in 1..MaxInstanceTriangles,
          b \in BOOLEAN, c \in 0..MaxCapacity }

\* A pass whose groups get instancing buffer space: instanceable batches of
\* any geometry and priority, and a loose batch.
AddBatchAllocating ==
    \E g \in 1..MaxGeometry, p \in BOOLEAN, noInstancing \in BOOLEAN :
        /\ noInstancing => (g = 1 /\ ~p)
        /\ Submit(MakeBatch(<<0, 1, 1, g>>, InstanceableKind, <<1, 1>>, p, 1), noInstancing)

InitAllocating == InitQueue /\ renderer \in Thresholds

NextAllocating == AddBatchAllocating \/ SetTransforms

SpecAllocating == InitAllocating /\ [][NextAllocating]_vars

\* The queues of a frame that share the instancing buffer: each collects
\* instanceable batches of the smallest and the largest geometry, then is
\* given its buffer ranges by one call of SetTransforms, and then the next
\* queue has its turn.
AddBatchShared ==
    /\ ~After("SetTransforms")
    /\ \E g \in {1, MaxGeometry} :
           Submit(MakeBatch(<<0, 1, 1, g>>, InstanceableKind, <<1, 1>>, FALSE, 1), FALSE)

SetTransformsOnce == ~After("SetTransforms") /\ SetTransforms

NextSharedBuffer == AddBatchShared \/ SetTransformsOnce \/ NewQueue

\* Every group is large enough; the larger geometries may be too large.
InitSharedBuffer ==
    /\ InitQueue
    /\ renderer \in { r \in Thresholds : r.minInstanceGroupSize = 1 }

SpecSharedBuffer == InitSharedBuffer /\ [][NextSharedBuffer]_vars

\* A pass whose groups are drawn: instanceable batches of any geometry.
AddBatchDrawing ==
    \E g \in 1..MaxGeometry :
        Submit(MakeBatch(<<0, 1, 1, g>>, InstanceableKind, <<1, 1>>, FALSE, 1), FALSE)

InitDrawing ==
    /\ InitQueue
    /\ renderer \in Renderers
    /\ ~renderer.instancingBuffer => renderer.vertexCount = 0

NextDrawing == AddBatchDrawing \/ SetTransforms \/ DrawGroup

SpecDrawing == InitDrawing /\ [][NextDrawing]_vars

\* A pass whose loose batches are drawn: batches of any kind, with or without
\* their shaders.
AddBatchLoose ==
    \E kind \in Kinds, shaders \in ShaderPairs :
        Submit(MakeBatch(KeyNumber(1), kind, shaders, FALSE, 1), kind = InstanceableKind)

NextBatchDrawing == AddBatchLoose \/ DrawBatch

SpecBatchDrawing == InitSorting /\ [][NextBatchDrawing]_vars

\* Object numbers at the edges of a sort key field of the mask: the largest
\* number that fits, and the number of the object that lies mask + 1 objects
\* further on in memory than the object of number near.
EdgesOf(mask, near) == {mask, mask + 1 + near}

\* The keys of the batches whose sort keys are compared: the first key, and
\* the keys that differ from it by an edge value in one field.
EdgeKeys ==
    {KeyNumber(1)}
        \cup { <<lq, 1, 1, 1>> : lq \in EdgesOf(LIGHT_QUEUE_MASK, 0) }
        \cup { <<0, x, 1, 1>> : x \in EdgesOf(FIELD_MASK, 1) }
        \cup { <<0, 1, x, 1>> : x \in EdgesOf(FIELD_MASK, 1) }
        \cup { <<0, 1, 1, x>> : x \in EdgesOf(FIELD_MASK, 1) }

\* Loose batches of either priority whose objects are anywhere in memory.
AddBatchEdges ==
    \E key \in EdgeKeys, p \in BOOLEAN :
        Submit(MakeBatch(key, InstanceableKind, <<1, 1>>, p, 1), TRUE)

NextSortKeys == AddBatchEdges

SpecSortKeys == InitSorting /\ [][NextSortKeys]_vars

\* Frames of one queue: batches of any geometry and priority are collected
\* and sorted, and Clear starts the next frame.
AddBatchFrame ==
    \E g \in 1..MaxGeometry, p \in BOOLEAN, noInstancing \in BOOLEAN :
        /\ noInstancing => (g = 1 /\ ~p)
        /\ Submit(MakeBatch(<<0, 1, 1, g>>, InstanceableKind, <<1, 1>>, p, 1), noInstancing)

NextFrames == AddBatchFrame \/ SortBackToFront \/ SortFrontToBack \/ Clear

SpecFrames == InitSorting /\ [][NextFrames]_vars

\* Batches of two group keys and either priority whose shaders, vertex shader
\* index or camera differ from those of the batches submitted before them:
\* <<vertexShader_, pixelShader_, vertexShaderIndex_, camera_>>.
Variations == { <<1, 1, 0, 1>>, <<2, 2, 1, 1>>, <<1, 1, 0, 2>> }

AddBatchSeeding ==
    \E i \in 1..2, v \in Variations, p \in BOOLEAN :
        Submit([MakeBatch(KeyNumber(i), InstanceableKind, <<v[1], v[2]>>, p, 1)
                    EXCEPT !.vertexShaderIndex_ = v[3], !.camera_ = v[4]], FALSE)

NextSeeding == AddBatchSeeding

SpecSeeding == InitSorting /\ [][NextSeeding]_vars

\* The phases of a pass in the order of the view that renders it: the batches
\* are collected, the queue is sorted once in either order, the locked
\* instancing buffer is filled by SetTransforms, and the groups are drawn.
AddBatchCollect ==
    /\ lastOp.op \in {"Init", "AddBatch"}
    /\ \E p \in BOOLEAN, d \in NearFar :
           Submit(MakeBatch(KeyNumber(1), InstanceableKind, <<1, 1>>, p, d), FALSE)

SortBackToFrontPhase == After("AddBatch") /\ SortBackToFront

SortFrontToBackPhase == After("AddBatch") /\ SortFrontToBack

AllocateInstances ==
    /\ lastOp.op \in {"SortBackToFront", "SortFrontToBack"}
    /\ SetTransforms

DrawPhase ==
    /\ lastOp.op \in {"SetTransforms", "DrawGroup"}
    /\ DrawGroup

NextPhases ==
    \/ AddBatchCollect
    \/ SortBackToFrontPhase
    \/ SortFrontToBackPhase
    \/ AllocateInstances
    \/ DrawPhase

SpecPhases == InitAllocating /\ [][NextPhases]_vars

\* The queue of a pass over its frames: instanceable batches of two group
\* keys without priority and of one with priority are collected, sorted in
\* either order and given their buffer ranges, and the queue is cleared.
AddBatchGroups ==
    \E i \in 1..2, p \in BOOLEAN :
        /\ p => i = 1
        /\ Submit(MakeBatch(KeyNumber(i), InstanceableKind, <<1, 1>>, p, 1), FALSE)

NextGroups ==
    \/ AddBatchGroups
    \/ SortBackToFront
    \/ SortFrontToBack
    \/ SetTransformsOnce
    \/ Clear

SpecGroups == InitSorting /\ [][NextGroups]_vars

\* Every operation, on any batch
AddBatchAny ==
    \E key \in Keys, kind \in Kinds, shaders \in ShaderPairs, p \in BOOLEAN,
       d \in 1..MaxDistance, noInstancing \in BOOLEAN :
        Submit(MakeBatch(key, kind, shaders, p, d), noInstancing)

Init == InitDrawing

Next ==
    \/ AddBatchAny
    \/ SortBackToFront
    \/ SortFrontToBack
    \/ SetTransforms
    \/ DrawBatch
    \/ DrawGroup
    \/ NewQueue
    \/ Clear

Spec == Init /\ [][Next]_vars

(* ------------------------- the submission order ----------------------- *)
\* The world transforms of the batches of a sorted loose view, in its order
LooseOrder(view) == [i \in 1..Len(view) |-> batches_[view[i]].worldTransform_]

\* The world transforms of the instances of the groups of a sorted group view
GroupOrder(groups, view) ==
    LET RECURSIVE Upto(_)
        Upto(n) ==
            IF n = 0 THEN <<>>
            ELSE Upto(n - 1) \o
                 [i \in 1..Len(groups[view[n]].instances_) |->
                      groups[view[n]].instances_[i].worldTransform_]
    IN  Upto(Len(view))

\* The order in which a view draws a sorted queue: priority before non-priority
SubmissionOrder ==
    LooseOrder(sortedPriorityBatches_)
        \o GroupOrder(priorityBatchGroups_, sortedPriorityBatchGroups_)
        \o LooseOrder(sortedBatches_)
        \o GroupOrder(batchGroups_, sortedBatchGroups_)

GroupedOrder ==
    GroupOrder(priorityBatchGroups_, sortedPriorityBatchGroups_)
        \o GroupOrder(batchGroups_, sortedBatchGroups_)

HasPriority(worldTransform) == submitted[worldTransform].batch.hasPriority_

\* No non-priority batch precedes a priority batch
PriorityFirst(order) ==
    \A i, j \in 1..Len(order) :
        i < j => ~(~HasPriority(order[i]) /\ HasPriority(order[j]))

(* ------------------------------- claims ------------------------------- *)
\* C1 (as stated): after SortBackToFront and after SortFrontToBack, no
\* non-priority batch precedes a priority batch in the submission order.
C1_BothSortOrders ==
    (After("SortBackToFront") \/ After("SortFrontToBack")) => PriorityFirst(SubmissionOrder)

\* C1 (amended): after SortFrontToBack no non-priority batch precedes a
\* priority batch in the submission order, whatever the keys and distances;
\* after SortBackToFront that holds of the grouped batches only, every loose
\* batch being listed in the one distance-ordered non-priority list.
C1_PriorityFirst ==
    /\ After("SortFrontToBack") => PriorityFirst(SubmissionOrder)
    /\ After("SortBackToFront") =>
           /\ sortedPriorityBatches_ = <<>>
           /\ Len(sortedBatches_) = Len(batches_)
           /\ PriorityFirst(GroupedOrder)

\* C1 witness: a front-to-back sorted queue in which a loose priority batch
\* is farther than a loose non-priority one submitted before it, and there
\* is a priority group.
C1_Witness ==
    /\ After("SortFrontToBack")
    /\ DOMAIN priorityBatchGroups_ # {}
    /\ \E i, j \in 1..Len(batches_) :
           /\ j < i
           /\ batches_[i].hasPriority_ /\ ~batches_[j].hasPriority_
           /\ batches_[i].distance_ > batches_[j].distance_

\* Adjacent pairs of a sorted loose view are in back-to-front order
BackToFrontOrdered(view) ==
    \A i \in 1..(Len(view) - 1) :
        LET a == batches_[view[i]]
            b == batches_[view[i + 1]]
        IN  /\ a.distance_ >= b.distance_
            /\ a.distance_ = b.distance_ => U64GreaterEqual(a.sortKey_, b.sortKey_)

\* C2: after SortBackToFront every adjacent pair of the sorted loose batches
\* has distance[i] >= distance[i+1], and sortKey[i] >= sortKey[i+1] on a tie.
C2_BackToFront == After("SortBackToFront") => BackToFrontOrdered(sortedBatches_)

\* C2 witness: three loose batches submitted nearest first, two of them at
\* the same distance with keys ascending, sorted back to front.
C2_Witness ==
    /\ After("SortBackToFront")
    /\ Len(sortedBatches_) = 3
    /\ batches_[1].distance_ < batches_[2].distance_
    /\ batches_[2].distance_ = batches_[3].distance_
    /\ U64Greater(batches_[3].sortKey_, batches_[2].sortKey_)

\* Adjacent pairs of a sorted loose view are in front-to-back order
FrontToBackOrdered(view) ==
    \A i \in 1..(Len(view) - 1) :
        LET a == batches_[view[i]]
            b == batches_[view[i + 1]]
        IN  /\ U64GreaterEqual(a.sortKey_, b.sortKey_)
            /\ a.sortKey_ = b.sortKey_ => a.distance_ <= b.distance_

\* C3: after SortFrontToBack every adjacent pair of the priority list and of
\* the non-priority list has sortKey[i] >= sortKey[i+1], and
\* distance[i] <= distance[i+1] on a tie.
C3_FrontToBack ==
    After("SortFrontToBack") =>
        FrontToBackOrdered(sortedPriorityBatches_) /\ FrontToBackOrdered(sortedBatches_)

\* C3 witness: three loose batches of one priority submitted with keys
\* ascending, two of them with the same key and distances descending.
C3_Witness ==
    /\ After("SortFrontToBack")
    /\ Len(sortedBatches_) = 3
    /\ U64Greater(batches_[2].sortKey_, batches_[1].sortKey_)
    /\ batches_[2].sortKey_ = batches_[3].sortKey_
    /\ batches_[2].distance_ > batches_[3].distance_

(* ---------------------- the history of a queue ------------------------ *)
\* The submissions that AddBatch had to put in the group of this key in the
\* priority or the non-priority map
Instanceable(submission) ==
    /\ ~submission.noInstancing
    /\ submission.batch.geometryType_ = GEOM_STATIC
    /\ ~submission.batch.overrideView_
    /\ submission.batch.shaderData_ = 0

InsertedInto(hasPriority, key) ==
    { i \in 1..Len(submitted) :
        /\ Instanceable(submitted[i])
        /\ submitted[i].batch.hasPriority_ = hasPriority
        /\ GroupKey(submitted[i].batch) = key }

\* The submissions that AddBatch had to leave loose
InsertedLoose ==
    { i \in 1..Len(submitted) : ~Instanceable(submitted[i]) }

\* Every group of the map holds exactly the instances inserted into it
PermutationOfInserted(groups, hasPriority) ==
    \A k \in DOMAIN groups :
        LET inst == groups[k].instances_
        IN  /\ {inst[i].worldTransform_ : i \in 1..Len(inst)} = InsertedInto(hasPriority, k)
            /\ Len(inst) = Cardinality(InsertedInto(hasPriority, k))
            /\ \A i \in 1..Len(inst) :
                   inst[i].distance_ = submitted[inst[i].worldTransform_].batch.distance_

InstancesAscending(groups) ==
    \A k \in DOMAIN groups :
        \A i \in 1..(Len(groups[k].instances_) - 1) :
            groups[k].instances_[i].distance_ <= groups[k].instances_[i + 1].distance_

\* C9: after SortFrontToBack the instance list of every group of both maps
\* is in ascending distance and is a permutation of the instances inserted.
C9_InstancesFrontToBack ==
    After("SortFrontToBack") =>
        /\ InstancesAscending(priorityBatchGroups_)
        /\ InstancesAscending(batchGroups_)
        /\ PermutationOfInserted(priorityBatchGroups_, TRUE)
        /\ PermutationOfInserted(batchGroups_, FALSE)

\* C9 witness: three batches of one group key inserted with distances
\* 3, 1, 2 (the spec's 5, 1, 3) are in the order 1, 2, 3 after the sort.
C9_Witness ==
    /\ After("SortFrontToBack")
    /\ \E k \in DOMAIN batchGroups_ :
           /\ Len(batchGroups_[k].instances_) = 3
           /\ [i \in 1..3 |-> batchGroups_[k].instances_[i].worldTransform_] = <<2, 3, 1>>
           /\ [i \in 1..3 |-> batchGroups_[k].instances_[i].distance_] = <<1, 2, 3>>

\* C6: a sort called straight after the same sort changes nothing: the four
\* sorted views and the instance list of every group stay as they were.
C6_SortIdempotent ==
    [][ (lastOp'.op \in {"SortBackToFront", "SortFrontToBack"} /\ lastOp'.again) =>
            /\ sortedPriorityBatches_' = sortedPriorityBatches_
            /\ sortedBatches_' = sortedBatches_
            /\ sortedPriorityBatchGroups_' = sortedPriorityBatchGroups_
            /\ sortedBatchGroups_' = sortedBatchGroups_
            /\ priorityBatchGroups_' = priorityBatchGroups_
            /\ batchGroups_' = batchGroups_ ]_vars

\* C6 witness: SortFrontToBack has run twice in a row on a queue with two
\* groups in one map, one of them with two instances at the same distance
\* and with an instance list that the sort had to reorder.
C6_Witness ==
    /\ After("SortFrontToBack") /\ lastOp.again
    /\ Cardinality(DOMAIN batchGroups_) = 2
    /\ \E k \in DOMAIN batchGroups_ :
           LET inst == batchGroups_[k].instances_
           IN  /\ Len(inst) = 2
               /\ inst[1].distance_ = inst[2].distance_
    /\ sortedBatchGroups_ # MapKeys(batchGroups_)

\* The places of a submission in the loose batches and in the groups of a map
LoosePlaces(worldTransform) ==
    { j \in 1..Len(batches_) : batches_[j].worldTransform_ = worldTransform }

GroupPlaces(groups, worldTransform) ==
    { <<k, j>> \in (DOMAIN groups) \X (1..(MaxBatches + 1)) :
        /\ j <= Len(groups[k].instances_)
        /\ groups[k].instances_[j].worldTransform_ = worldTransform }

InSubmissionOrder(groups) ==
    \A k \in DOMAIN groups :
        \A i \in 1..(Len(groups[k].instances_) - 1) :
            groups[k].instances_[i].worldTransform_ < groups[k].instances_[i + 1].worldTransform_

\* C4: after any sequence of AddBatch calls every instanceable batch is in
\* exactly one instance list, that of the group of its (light, pass,
\* material, geometry) in the map of its priority, and in no loose batch;
\* the instance lists are in submission order; every other batch is in the
\* loose batches exactly once and in no group.
C4_GroupingIsPartition ==
    /\ \A i \in 1..Len(submitted) :
           LET b == submitted[i].batch
               own == IF b.hasPriority_ THEN priorityBatchGroups_ ELSE batchGroups_
               other == IF b.hasPriority_ THEN batchGroups_ ELSE priorityBatchGroups_
           IN  IF Instanceable(submitted[i])
                   THEN /\ LoosePlaces(i) = {}
                        /\ GroupPlaces(other, i) = {}
                        /\ Cardinality(GroupPlaces(own, i)) = 1
                        /\ \A place \in GroupPlaces(own, i) : place[1] = GroupKey(b)
                   ELSE /\ Cardinality(LoosePlaces(i)) = 1
                        /\ \A j \in LoosePlaces(i) : batches_[j] = b
                        /\ GroupPlaces(own, i) = {} /\ GroupPlaces(other, i) = {}
    /\ InSubmissionOrder(priorityBatchGroups_) /\ InSubmissionOrder(batchGroups_)
    /\ Len(batches_) = Cardinality(InsertedLoose)
    /\ PermutationOfInserted(priorityBatchGroups_, TRUE)
    /\ PermutationOfInserted(batchGroups_, FALSE)

\* C4 witness: two instanceable batches of one key in one group, around a
\* batch of the same key that a view override keeps loose.
C4_Witness ==
    /\ Len(submitted) = 3 /\ Len(batches_) = 1
    /\ batches_[1].overrideView_ /\ batches_[1].worldTransform_ = 2
    /\ \E k \in DOMAIN batchGroups_ :
           /\ Len(batchGroups_[k].instances_) = 2
           /\ k = GroupKey(batches_[1])

\* The groups that meet both thresholds
Qualifying(groups, r) ==
    { k \in DOMAIN groups :
        /\ Len(groups[k].instances_) >= r.minInstanceGroupSize
        /\ IndexCount(groups[k].geometry_) <= r.maxInstanceTriangles * 3 }

\* The slots that hold a transform
Written(data) == { slot \in DOMAIN data : data[slot] # 0 }

\* C5: the transform writes and the cursor advance of BatchQueue::SetTransforms
\* both equal GetNumInstances, which is positive exactly when some group
\* meets both thresholds.
C5_NumInstancesIsConsumption ==
    After("SetTransforms") =>
        /\ lastOp.writes = GetNumInstances(renderer)
        /\ freeIndex - lastOp.freeIndex = GetNumInstances(renderer)
        /\ Cardinality(Written(lockedData)) = freeIndex
        /\ GetNumInstances(renderer) > 0 <=>
               Qualifying(priorityBatchGroups_, renderer)
                   \cup Qualifying(batchGroups_, renderer) # {}

\* C5 witness: SetTransforms has written a group that meets the thresholds
\* and skipped a group that is too small and a group of too large a geometry.
C5_Witness ==
    /\ After("SetTransforms") /\ lastOp.writes = 2
    /\ \E k \in DOMAIN batchGroups_ :
           Len(batchGroups_[k].instances_) < renderer.minInstanceGroupSize
    /\ \E k \in (DOMAIN batchGroups_) \cup (DOMAIN priorityBatchGroups_) :
           IndexCount(k[4]) > renderer.maxInstanceTriangles * 3

\* The groups of a map whose geometry is above the triangle threshold
Oversized(groups, r) ==
    { k \in DOMAIN groups : IndexCount(groups[k].geometry_) > r.maxInstanceTriangles * 3 }

\* C7 (as stated): geometry above the max-instanced-triangle threshold never
\* forms a group: no BatchGroup exists for such a key.
C7_NeverForms ==
    Oversized(priorityBatchGroups_, renderer) \cup Oversized(batchGroups_, renderer) = {}

\* The submissions of a geometry above the triangle threshold
OversizedBatches ==
    { i \in 1..Len(submitted) :
        /\ Instanceable(submitted[i])
        /\ IndexCount(submitted[i].batch.geometry_) > renderer.maxInstanceTriangles * 3 }

\* The group that the last DrawGroup has drawn
DrawnGroup ==
    IF lastOp.hasPriority THEN priorityBatchGroups_[lastOp.key] ELSE batchGroups_[lastOp.key]

InstanceTransforms(group) ==
    [i \in 1..Len(group.instances_) |-> group.instances_[i].worldTransform_]

\* The transforms bound or drawn by the calls of a name, in call order
RECURSIVE TransformsOf(_)
TransformsOf(calls) ==
    IF calls = <<>> THEN <<>> ELSE Head(calls).transforms \o TransformsOf(Tail(calls))

\* C7 (amended): geometry above the max-instanced-triangle threshold is
\* never drawn instanced.  AddBatch still puts its instanceable batches in a
\* BatchGroup and not in the loose batches, but SetTransforms gives such a
\* group no start offset, and BatchGroup::Draw issues for it one
\* non-instanced draw per instance, in instance order, and no instanced draw.
C7_NeverInstanced ==
    /\ \A i \in OversizedBatches :
           /\ LoosePlaces(i) = {}
           /\ GroupPlaces(priorityBatchGroups_, i) \cup GroupPlaces(batchGroups_, i) # {}
    /\ \A k \in Oversized(priorityBatchGroups_, renderer) :
           priorityBatchGroups_[k].startIndex_ = M_MAX_UNSIGNED
    /\ \A k \in Oversized(batchGroups_, renderer) :
           batchGroups_[k].startIndex_ = M_MAX_UNSIGNED
    /\ (After("DrawGroup") /\ IndexCount(lastOp.key[4]) > renderer.maxInstanceTriangles * 3) =>
           /\ CallsNamed(graphicsCalls, "DrawInstanced") = <<>>
           /\ Len(CallsNamed(graphicsCalls, "Draw")) = Len(DrawnGroup.instances_)
           /\ TransformsOf(graphicsCalls) = InstanceTransforms(DrawnGroup)

\* C7 witness: a group of a geometry above the threshold, with enough
\* instances for instancing and an instancing buffer, has been drawn after
\* SetTransforms had given a start offset to another group.
C7_Witness ==
    /\ After("DrawGroup")
    /\ IndexCount(lastOp.key[4]) > renderer.maxInstanceTriangles * 3
    /\ renderer.instancingBuffer
    /\ Len(DrawnGroup.instances_) = 2 /\ renderer.minInstanceGroupSize = 1
    /\ freeIndex > 0

\* The chunk sizes c, c, ..., and the rest of n instances above the last c
ChunkSizes(n, c) ==
    [i \in 1..(n \div c) |-> c] \o (IF n % c # 0 THEN <<n % c>> ELSE <<>>)

\* The last DrawGroup took the lock-and-fill path and every lock succeeded
ChunkedCase ==
    /\ After("DrawGroup")
    /\ lastOp.outcome = "returned"
    /\ renderer.instancingBuffer
    /\ renderer.vertexCount >= 1
    /\ Len(DrawnGroup.instances_) >= renderer.minInstanceGroupSize
    /\ IndexCount(DrawnGroup.geometry_) <= renderer.maxInstanceTriangles * 3
    /\ DrawnGroup.startIndex_ = M_MAX_UNSIGNED

\* C8: an instancing-eligible group of n instances without a start offset is
\* drawn, when every lock succeeds and the buffer capacity is c >= 1, by
\* instanced draws of c, c, ... and at last n - c * floor(n / c) instances
\* (when not zero), which cover the instances once each in instance order.
C8_Chunks ==
    ChunkedCase =>
        LET draws == CallsNamed(graphicsCalls, "DrawInstanced")
        IN  /\ [i \in 1..Len(draws) |-> draws[i].count]
                   = ChunkSizes(Len(DrawnGroup.instances_), renderer.vertexCount)
            /\ \A i \in 1..Len(draws) : Len(draws[i].transforms) = draws[i].count
            /\ TransformsOf(draws) = InstanceTransforms(DrawnGroup)
            /\ CallsNamed(graphicsCalls, "Draw") = <<>>

\* C8 witness: three instances drawn through a buffer of capacity two, in
\* chunks of two and one (the spec's 2, 2, 1 for five instances).
C8_Witness ==
    /\ ChunkedCase
    /\ renderer.vertexCount = 2
    /\ Len(DrawnGroup.instances_) = 3
    /\ Len(CallsNamed(graphicsCalls, "DrawInstanced")) = 2

\* C10: Batch::Draw on a batch without its vertex or pixel shader makes no
\* Graphics call at all: nothing is prepared and nothing is drawn.
C10_NoOpDraw ==
    (After("DrawBatch") /\ (batches_[lastOp.batch].vertexShader_ = 0
                               \/ batches_[lastOp.batch].pixelShader_ = 0)) =>
        graphicsCalls = <<>>

\* The last DrawGroup returned on a failed lock of the instancing buffer
LockFailure == After("DrawGroup") /\ lastOp.outcome = "lock failed"

\* The instanced draws of the last DrawGroup are full chunks that cover a
\* proper prefix of the instances of the group, and nothing else is drawn
DrawnBeforeFailure ==
    LET draws == CallsNamed(graphicsCalls, "DrawInstanced")
        drawn == TransformsOf(draws)
    IN  /\ CallsNamed(graphicsCalls, "Draw") = <<>>
        /\ \A i \in 1..Len(draws) :
               /\ draws[i].count = renderer.vertexCount
               /\ Len(draws[i].transforms) = draws[i].count
        /\ Len(drawn) < Len(DrawnGroup.instances_)
        /\ drawn = SubSeq(InstanceTransforms(DrawnGroup), 1, Len(drawn))

C12_ClearResets ==
    After("Clear") =>
        /\ batches_ = <<>>
        /\ priorityBatchGroups_ = EmptyMap
        /\ batchGroups_ = EmptyMap
        /\ sortedBatches_ = <<>>
        /\ sortedPriorityBatches_ = <<>>
        /\ sortedBatchGroups_ = <<>>
        /\ sortedPriorityBatchGroups_ = <<>>

\* The values of the four identity fields of the sort key of a batch
FieldValues(batch) ==
    << batch.lightQueue_ % (LIGHT_QUEUE_MASK + 1), batch.pass_ % (FIELD_MASK + 1),
       batch.material_ % (FIELD_MASK + 1), batch.geometry_ % (FIELD_MASK + 1) >>

LexGreater(a, b) ==
    \E i \in 1..4 : a[i] > b[i] /\ \A j \in 1..(i - 1) : a[j] = b[j]

\* C13: every 16-bit part of a sort key is a 16-bit value, the top bit of the
\* first part is the priority and its other 15 bits are the light context
\* field, the next parts are the pass, material and geometry fields; so the
\* key of a priority batch is greater than the key of any non-priority
\* batch, and keys of batches of equal priority are ordered as their
\* (lightContext, pass, material, geometry) field values are lexicographically.
C13_SortKeyLayout ==
    \A i, j \in 1..Len(batches_) :
        LET a == batches_[i]
            b == batches_[j]
        IN  /\ \A n \in 1..4 : a.sortKey_[n] \in 0..FIELD_MASK
            /\ a.sortKey_[1] \div PRIORITY_BIT = (IF a.hasPriority_ THEN 1 ELSE 0)
            /\ << a.sortKey_[1] % PRIORITY_BIT, a.sortKey_[2], a.sortKey_[3],
                   a.sortKey_[4] >> = FieldValues(a)
            /\ (a.hasPriority_ /\ ~b.hasPriority_) => U64Greater(a.sortKey_, b.sortKey_)
            /\ a.hasPriority_ = b.hasPriority_ =>
                   (U64Greater(a.sortKey_, b.sortKey_)
                        <=> LexGreater(FieldValues(a), FieldValues(b)))

\* C13 witness: a priority batch with every field at its least value next to
\* a non-priority batch with the largest light context field, and a third
\* batch that has a smaller light context than that one and a larger pass.
C13_Witness ==
    /\ Len(batches_) = 3
    /\ batches_[1].hasPriority_ /\ FieldValues(batches_[1]) = <<0, 1, 1, 1>>
    /\ ~batches_[2].hasPriority_ /\ FieldValues(batches_[2])[1] = LIGHT_QUEUE_MASK
    /\ ~batches_[3].hasPriority_ /\ FieldValues(batches_[3])[1] = 0
    /\ FieldValues(batches_[3])[2] = FIELD_MASK

\* C14: two batches with distinct light queues, passes, materials or
\* geometries have distinct values in that field of their sort keys.
C14_NoAliasing ==
    \A i, j \in 1..Len(batches_) :
        LET a == batches_[i]
            b == batches_[j]
        IN  /\ a.lightQueue_ # b.lightQueue_ =>
                   a.sortKey_[1] % PRIORITY_BIT # b.sortKey_[1] % PRIORITY_BIT
            /\ a.pass_ # b.pass_ => a.sortKey_[2] # b.sortKey_[2]
            /\ a.material_ # b.material_ => a.sortKey_[3] # b.sortKey_[3]
            /\ a.geometry_ # b.geometry_ => a.sortKey_[4] # b.sortKey_[4]

\* The last DrawGroup drew a group that can be drawn instanced
InstancingEligible ==
    /\ renderer.instancingBuffer
    /\ Len(DrawnGroup.instances_) >= renderer.minInstanceGroupSize
    /\ IndexCount(DrawnGroup.geometry_) <= renderer.maxInstanceTriangles * 3

\* The model transform binds and the non-instanced draws among the calls
BindsAndDraws(calls) ==
    SelectSeq(calls, LAMBDA c : c.call \in {"SetShaderParameter VSP_MODEL", "Draw"})

\* C15: BatchGroup::Draw issues an instanced draw only for a group that has
\* an instancing buffer, at least the minimum instance count and at most the
\* maximum index count; for every other group it issues no instanced draw
\* and, for each instance in instance order, one bind of the transform of
\* the instance followed by one non-instanced draw of the geometry.
C15_FallbackPerInstance ==
    After("DrawGroup") =>
        /\ CallsNamed(graphicsCalls, "DrawInstanced") # <<>> => InstancingEligible
        /\ ~InstancingEligible =>
               LET n == Len(DrawnGroup.instances_)
                   calls == BindsAndDraws(graphicsCalls)
               IN  /\ CallsNamed(graphicsCalls, "DrawInstanced") = <<>>
                   /\ Len(calls) = 2 * n
                   /\ \A i \in 1..n :
                          /\ calls[2 * i - 1] =
                                 SetModelTransform(DrawnGroup.instances_[i].worldTransform_)
                          /\ calls[2 * i].call = "Draw"
                          /\ calls[2 * i].object = DrawnGroup.geometry_

\* C15 witness: a group of three instances, large enough and of a small
\* enough geometry, has been drawn without an instancing buffer.
C15_Witness ==
    /\ After("DrawGroup")
    /\ ~renderer.instancingBuffer
    /\ Len(DrawnGroup.instances_) = 3
    /\ Len(DrawnGroup.instances_) >= renderer.minInstanceGroupSize
    /\ IndexCount(DrawnGroup.geometry_) <= renderer.maxInstanceTriangles * 3

\* The groups of both maps, each once
GroupsOf(priorityGroups, groups) ==
    [i \in 1..Len(MapKeys(priorityGroups)) |-> priorityGroups[MapKeys(priorityGroups)[i]]]
        \o [i \in 1..Len(MapKeys(groups)) |-> groups[MapKeys(groups)[i]]]

\* The group meets both thresholds
MeetsThresholds(group, r) ==
    /\ Len(group.instances_) >= r.minInstanceGroupSize
    /\ IndexCount(group.geometry_) <= r.maxInstanceTriangles * 3

\* The instances of the groups that meet the thresholds and, with a start
\* offset given, of those of them that start below it
InstancesBelow(allGroups, r, start) ==
    SumSeq([i \in 1..Len(allGroups) |->
        IF MeetsThresholds(allGroups[i], r) /\ allGroups[i].startIndex_ < start
            THEN Len(allGroups[i].instances_) ELSE 0])

\* What a SetTransforms step from cursor f has done to a group that meets the
\* thresholds: the start offset is f plus the instances of the groups
\* written before it, and slot start + i holds the transform of instance i.
GroupWritten(group, allGroups, r, f, data) ==
    /\ group.startIndex_ = f + InstancesBelow(allGroups, r, group.startIndex_)
    /\ \A i \in 1..Len(group.instances_) :
           data[group.startIndex_ + i - 1] = group.instances_[i].worldTransform_

\* C16: for every group that meets both thresholds, SetTransforms called at
\* cursor f records f as the start offset, writes the transform of instance
\* i to slot f + i in the order of the instance list, and leaves the cursor
\* at f + n for the next group; no slot outside these ranges is written and
\* no instance list changes.
C16_GroupSetTransforms ==
    [][ lastOp'.op = "SetTransforms" =>
            LET allGroups == GroupsOf(priorityBatchGroups_', batchGroups_')
            IN  /\ \A i \in 1..Len(allGroups) :
                       MeetsThresholds(allGroups[i], renderer) =>
                           GroupWritten(allGroups[i], allGroups, renderer, freeIndex,
                                        lockedData')
                /\ freeIndex' = freeIndex + InstancesBelow(allGroups, renderer, BufferSlots + 1)
                /\ \A slot \in DOMAIN lockedData :
                       (slot < freeIndex \/ slot >= freeIndex') =>
                           lockedData'[slot] = lockedData[slot]
                /\ \A i \in 1..Len(allGroups) :
                       allGroups[i].instances_
                           = GroupsOf(priorityBatchGroups_, batchGroups_)[i].instances_
      ]_vars

\* C16 witness: SetTransforms, called with a cursor above zero, has written
\* a group of two instances and after it a group of one instance.
C16_Witness ==
    /\ After("SetTransforms") /\ lastOp.freeIndex > 0
    /\ \E k1, k2 \in (DOMAIN batchGroups_) \cup (DOMAIN priorityBatchGroups_) :
           LET g1 == IF k1 \in DOMAIN batchGroups_ THEN batchGroups_[k1]
                                                   ELSE priorityBatchGroups_[k1]
               g2 == IF k2 \in DOMAIN priorityBatchGroups_ THEN priorityBatchGroups_[k2]
                                                           ELSE batchGroups_[k2]
           IN  /\ Len(g1.instances_) = 2 /\ Len(g2.instances_) = 1
               /\ g1.startIndex_ = lastOp.freeIndex
               /\ g2.startIndex_ = lastOp.freeIndex + 2

\* C17: BatchGroup::SetTransforms on a group with fewer instances than the
\* minimum group size, or with more indices than the maximum, changes
\* nothing: the group is as before, with the start offset it was created
\* with, and a SetTransforms of a queue that has only such groups leaves the
\* cursor and the buffer as they were.
C17_SetTransformsNoOp ==
    [][ lastOp'.op = "SetTransforms" =>
            LET before == GroupsOf(priorityBatchGroups_, batchGroups_)
                after == GroupsOf(priorityBatchGroups_', batchGroups_')
                skipped == { i \in 1..Len(before) : ~MeetsThresholds(before[i], renderer) }
            IN  /\ \A i \in skipped :
                       /\ after[i] = before[i]
                       /\ after[i].startIndex_ = M_MAX_UNSIGNED
                /\ skipped = 1..Len(before) => UNCHANGED <<freeIndex, lockedData>>
      ]_vars

\* C17 witness: SetTransforms has run on a queue with a group that is too
\* small and a group that is large enough but of too large a geometry, and
\* has written nothing.
C17_Witness ==
    /\ After("SetTransforms") /\ lastOp.writes = 0
    /\ \E k \in DOMAIN batchGroups_ :
           /\ Len(batchGroups_[k].instances_) < renderer.minInstanceGroupSize
           /\ IndexCount(k[4]) <= renderer.maxInstanceTriangles * 3
    /\ \E k \in DOMAIN batchGroups_ :
           /\ Len(batchGroups_[k].instances_) >= renderer.minInstanceGroupSize
           /\ IndexCount(k[4]) > renderer.maxInstanceTriangles * 3

\* The slots of a range of the buffer
SlotsOf(range) == range.start .. (range.start + range.count - 1)

\* The ranges given out so far follow each other from slot 0 to the cursor
RangesTile ==
    LET ranges == frame.ranges
    IN  /\ \A i \in 1..Len(ranges) :
               ranges[i].start = (IF i = 1 THEN 0 ELSE ranges[i - 1].start + ranges[i - 1].count)
        /\ \A i, j \in 1..Len(ranges) :
               i # j => SlotsOf(ranges[i]) \cap SlotsOf(ranges[j]) = {}
        /\ UNION { SlotsOf(ranges[i]) : i \in 1..Len(ranges) } = 0..(freeIndex - 1)

\* C18: whatever queues call SetTransforms one after another with the same
\* cursor, the cursor never decreases, the ranges given to the groups of all
\* the queues are pairwise disjoint (no slot is written twice) and tile the
\* slots from the initial cursor 0 to the cursor, the cursor is the sum of
\* GetNumInstances over the calls, and a buffer of at least that many slots
\* holds every slot that has been written.
C18_BumpAllocator ==
    /\ [](/\ RangesTile
          /\ freeIndex = frame.required
          /\ \A capacity \in 0..BufferSlots :
                 capacity >= frame.required => Written(lockedData) \subseteq 0..(capacity - 1))
    /\ [][freeIndex' >= freeIndex]_vars

\* C18 witness: the SetTransforms of a second queue has given a range to its
\* only group, after the two ranges that the first queue was given.
C18_Witness ==
    /\ After("SetTransforms")
    /\ Len(frame.ranges) = 3
    /\ Cardinality(DOMAIN batchGroups_) = 1
    /\ \E k \in DOMAIN batchGroups_ : batchGroups_[k].startIndex_ = frame.ranges[3].start

\* The instances of every group of the map are in the order of their AddBatch
InsertionOrdered(groups) ==
    \A k \in DOMAIN groups :
        \A i, j \in 1..Len(groups[k].instances_) :
            i < j => groups[k].instances_[i].worldTransform_
                         < groups[k].instances_[j].worldTransform_

\* The view lists every group of the map exactly once
ListsOnce(view, groups) ==
    /\ Elements(view) = DOMAIN groups
    /\ Len(view) = Cardinality(DOMAIN groups)

\* The view is in the order of the keys of the map
InMapOrder(view) ==
    \A i \in 1..(Len(view) - 1) : KeyLess(view[i], view[i + 1])

\* C19: SortBackToFront changes no group; after it, in a queue that is only
\* sorted back to front, the instances of every group are in insertion
\* order whatever their distances, and each sorted group view lists every
\* group of its map exactly once, in the order of the map.
C19_GroupsOnlyListed ==
    /\ [](After("SortBackToFront") =>
            /\ InsertionOrdered(priorityBatchGroups_) /\ InsertionOrdered(batchGroups_)
            /\ ListsOnce(sortedPriorityBatchGroups_, priorityBatchGroups_)
            /\ ListsOnce(sortedBatchGroups_, batchGroups_)
            /\ InMapOrder(sortedPriorityBatchGroups_) /\ InMapOrder(sortedBatchGroups_))
    /\ [][ lastOp'.op = "SortBackToFront" =>
               UNCHANGED <<priorityBatchGroups_, batchGroups_>> ]_vars

\* C19 witness: back to front sorted, a group whose first instance is nearer
\* than its second, listed after a group of a smaller key that is nearer
\* than both.
C19_Witness ==
    /\ After("SortBackToFront")
    /\ Len(sortedBatchGroups_) = 2
    /\ LET first == batchGroups_[sortedBatchGroups_[1]].instances_
           second == batchGroups_[sortedBatchGroups_[2]].instances_
          IN  /\ Len(second) = 2
           /\ second[1].distance_ < second[2].distance_
           /\ first[1].distance_ < second[2].distance_

\* The least distance of the batches that were submitted to a group
MinDistance(hasPriority, key) ==
    CHOOSE d \in { submitted[i].batch.distance_ : i \in InsertedInto(hasPriority, key) } :
        \A i \in InsertedInto(hasPriority, key) : d <= submitted[i].batch.distance_

\* The view lists the groups of the map once each, nearest group first, and
\* the first instance of every group is its nearest
NearestGroupFirst(view, groups, hasPriority) ==
    /\ ListsOnce(view, groups)
    /\ \A k \in DOMAIN groups :
           groups[k].instances_[1].distance_ = MinDistance(hasPriority, k)
    /\ \A i \in 1..(Len(view) - 1) :
           MinDistance(hasPriority, view[i]) <= MinDistance(hasPriority, view[i + 1])

\* C20: after SortFrontToBack each sorted group view lists every group of
\* its map exactly once, the first instance of each group is its nearest
\* one, and of two adjacent groups the least instance distance of the
\* earlier is at most the least instance distance of the later.
C20_GroupsFrontToBack ==
    After("SortFrontToBack") =>
        /\ NearestGroupFirst(sortedPriorityBatchGroups_, priorityBatchGroups_, TRUE)
        /\ NearestGroupFirst(sortedBatchGroups_, batchGroups_, FALSE)

\* C20 witness: front to back sorted, the group of the larger key is listed
\* first, its nearest instance having been submitted after a farther one.
C20_Witness ==
    /\ After("SortFrontToBack")
    /\ Len(sortedBatchGroups_) = 2
    /\ KeyLess(sortedBatchGroups_[2], sortedBatchGroups_[1])
    /\ LET first == batchGroups_[sortedBatchGroups_[1]].instances_
       IN  /\ Len(first) = 2
           /\ first[1].distance_ < first[2].distance_
           /\ first[1].worldTransform_ > first[2].worldTransform_

\* Every loose batch is referenced once by the two sorted loose views together
EachLooseBatchOnce ==
    LET refs == sortedPriorityBatches_ \o sortedBatches_
    IN  /\ Len(refs) = Len(batches_)
        /\ Elements(refs) = 1..Len(batches_)

\* C21: a sort leaves the sequence of loose batches and every field of every
\* batch as they were, and after it the sorted loose view and the sorted
\* priority loose view together refer to each loose batch exactly once,
\* whatever an earlier sort had left in them.
C21_SortOnlyDerives ==
    /\ []((After("SortBackToFront") \/ After("SortFrontToBack")) => EachLooseBatchOnce)
    /\ [][ lastOp'.op \in {"SortBackToFront", "SortFrontToBack"} =>
               batches_' = batches_ ]_vars

\* C21 witness: sorted back to front after a front to back sort (which has
\* reordered the instances submitted second and third) had listed the
\* priority batch submitted first in the priority view.
C21_Witness ==
    /\ After("SortBackToFront")
    /\ Len(batches_) = 1 /\ batches_[1].hasPriority_ /\ batches_[1].worldTransform_ = 1
    /\ \E k \in DOMAIN batchGroups_ :
           /\ Len(batchGroups_[k].instances_) = 2
           /\ batchGroups_[k].instances_[1].worldTransform_ = 3

\* The fields of a group that all of its instances share (lines 562-569)
SharedFields ==
    { "geometry_", "material_", "pass_", "vertexShader_", "pixelShader_", "camera_",
      "lightQueue_", "vertexShaderIndex_" }

Shared(object) == [field \in SharedFields |-> object[field]]

\* The step of AddBatch from the map old to the map new with the batch b
SeedsOrAppends(old, new, b) ==
    LET key == GroupKey(b)
        instance == InstanceData(b.worldTransform_, b.distance_)
    IN  /\ DOMAIN new = (DOMAIN old) \cup {key}
        /\ \A k \in (DOMAIN old) \ {key} : new[k] = old[k]
        /\ IF key \notin DOMAIN old
              THEN /\ Shared(new[key]) = Shared(b)
                   /\ new[key].instances_ = <<instance>>
              ELSE /\ Shared(new[key]) = Shared(old[key])
                   /\ new[key].instances_ = Append(old[key].instances_, instance)

\* C22: the first instanceable batch of a group key seeds the shared fields of
\* its group (geometry, material, pass, shaders, camera, light queue, vertex
\* shader index); every later batch of the key appends one (transform,
\* distance) pair and leaves the shared fields as they were, also when its
\* shaders or its camera differ from the group's.
C22_SeedThenAppend ==
    [][ lastOp'.op = "AddBatch" =>
          LET b == submitted'[Len(submitted')].batch
          IN  IF b.hasPriority_
                  THEN /\ SeedsOrAppends(priorityBatchGroups_, priorityBatchGroups_', b)
                       /\ batchGroups_' = batchGroups_
                  ELSE /\ SeedsOrAppends(batchGroups_, batchGroups_', b)
                       /\ priorityBatchGroups_' = priorityBatchGroups_ ]_vars

\* C22 witness: a group of three instances whose second batch had other
\* shaders and whose third batch had another camera than the first.
C22_Witness ==
    /\ After("AddBatch")
    /\ Len(submitted) = 3
    /\ \E k \in DOMAIN batchGroups_ :
           /\ Len(batchGroups_[k].instances_) = 3
           /\ submitted[2].batch.vertexShader_ # batchGroups_[k].vertexShader_
           /\ submitted[2].batch.vertexShaderIndex_ # batchGroups_[k].vertexShaderIndex_
           /\ submitted[3].batch.camera_ # batchGroups_[k].camera_

\* The drawn group has been given a start offset by SetTransforms
DrawnAtOffset ==
    /\ After("DrawGroup")
    /\ DrawnGroup.startIndex_ # M_MAX_UNSIGNED

\* C23: with the phases in the order collect, sort, allocate, draw, the draw
\* of a group that has a start offset issues exactly one instanced draw, with
\* the vertex buffers bound at that offset and a count equal to the number of
\* instances of the group, and the buffer slots from the offset on hold the
\* transforms of the group's instances in their current order.
C23_PrefilledDraw ==
    DrawnAtOffset =>
        LET group == DrawnGroup
            draws == CallsNamed(graphicsCalls, "DrawInstanced")
            binds == CallsNamed(graphicsCalls, "SetVertexBuffers")
        IN  /\ Len(draws) = 1
            /\ Len(binds) = 1
            /\ binds[1].offset = group.startIndex_
            /\ draws[1].count = Len(group.instances_)
            /\ draws[1].transforms = InstanceTransforms(group)
            /\ \A i \in 1..Len(group.instances_) :
                   ReadSlot(lockedData, group.startIndex_ + i - 1)
                       = group.instances_[i].worldTransform_
            /\ CallsNamed(graphicsCalls, "Draw") = <<>>

\* C23 witness: the drawn group starts behind another group in the buffer,
\* and the front to back sort has reordered its two instances.
C23_Witness ==
    /\ DrawnAtOffset
    /\ DrawnGroup.startIndex_ > 0
    /\ Len(DrawnGroup.instances_) = 2
    /\ DrawnGroup.instances_[1].worldTransform_ > DrawnGroup.instances_[2].worldTransform_

\* C24: the chunked loop of BatchGroup::Draw ends for every number of
\* instances and every capacity of the instancing buffer, 0 included: each
\* iteration advances the start index by at least one instance or returns on
\* a failed lock.
C24_ChunkLoopEnds ==
    After("DrawGroup") => lastOp.outcome \in {"returned", "lock failed"}

\* The last operation was a BatchGroup::Draw that returned
DrawReturned == After("DrawGroup") /\ lastOp.outcome \in {"returned", "lock failed"}

\* The instancing buffer was bound as a stream of the drawn geometry
BoundInstancingBuffer ==
    \E i \in 1..Len(graphicsCalls) :
        /\ graphicsCalls[i].call = "SetVertexBuffers"
        /\ graphicsCalls[i].count = Streams(vertexBuffers, DrawnGroup.geometry_) + 1

\* C25: a BatchGroup::Draw that returns, by the fallback, after the draw at
\* the start offset, after the last chunk or on a failed lock, leaves the
\* vertex buffers and element masks of every geometry as they were before
\* it: the instancing buffer it has pushed is popped again.
C25_BuffersRestored ==
    [][ DrawReturned' => vertexBuffers' = vertexBuffers ]_vars

\* C25 witness: a draw at the start offset has bound the instancing buffer
\* as an extra stream and has returned.
C25_Witness ==
    /\ DrawReturned
    /\ DrawnGroup.startIndex_ # M_MAX_UNSIGNED
    /\ BoundInstancingBuffer
    /\ CallsNamed(graphicsCalls, "DrawInstanced") # <<>>

\* The groups of both maps
AllGroups ==
    { priorityBatchGroups_[k] : k \in DOMAIN priorityBatchGroups_ }
        \cup { batchGroups_[k] : k \in DOMAIN batchGroups_ }

\* C26: whatever AddBatch, the sorts, SetTransforms and Clear have done, every
\* group of either map has at least one instance, so instances_[0] of a group
\* that the comparator of SortFrontToBack reads is in range.
C26_GroupsNotEmpty ==
    \A group \in AllGroups : Len(group.instances_) >= 1

\* C26 witness: the front to back sort has compared two groups of the same
\* map, one of them with a start offset from SetTransforms.
C26_Witness ==
    /\ After("SortFrontToBack")
    /\ Len(sortedBatchGroups_) = 2
    /\ Cardinality(DOMAIN batchGroups_) = 2
    /\ \E k \in DOMAIN batchGroups_ : batchGroups_[k].startIndex_ # M_MAX_UNSIGNED

====
